---- MODULE Spec2Model ----
(***************************************************************************)
(* Model of the liquidscriptions inscription tool: the envelope encoder    *)
(* (helpers: fileExtensionToHexMarker, generateInscriptionScriptFromFileHex*)
(* ), the amount parser btcToSats, and the inscribe() procedure of lib.ts  *)
(* with its asynchronous steps, together with the stub decoder of cli.ts.  *)
(*                                                                         *)
(* Conventions.  A JavaScript string is a sequence of one-character        *)
(* strings; a Buffer is a sequence of bytes 0..255; a hex string is a      *)
(* sequence of nibbles 0..15.  A JavaScript number that holds an amount of *)
(* satoshis is a record [hi, lo] standing for hi * 10^8 + lo, because the  *)
(* amounts the parser accepts exceed the integers of the model checker.    *)
(***************************************************************************)
EXTENDS Integers, Sequences, FiniteSets, TLC

\* ------------------------------------------------------------------ bounds

\* Contents of up to MaxChunks full pushes plus one byte are enumerated.
MaxChunks == 2
\* Every content length from 0 to MaxSmallLen is enumerated as well.
MaxSmallLen == 3
\* Amount strings of up to MaxAmountLen characters are enumerated.
MaxAmountLen == 3

\* ------------------------------------------------------------- basic helpers

Min(a, b) == IF a < b THEN a ELSE b

RECURSIVE Flatten(_)
Flatten(ss) == IF ss = <<>> THEN <<>> ELSE Head(ss) \o Flatten(Tail(ss))

\* Buffer.prototype.toString("hex"): two nibbles per byte, high nibble first.
BufferToHex(buf) ==
    [i \in 1..(2 * Len(buf)) |->
        IF i % 2 = 1 THEN buf[(i + 1) \div 2] \div 16 ELSE buf[i \div 2] % 16]

\* Buffer.from(hex, "hex"): one byte per pair of nibbles; a trailing odd
\* nibble is dropped.
BufferFromHex(hex) ==
    [i \in 1..(Len(hex) \div 2) |-> hex[2 * i - 1] * 16 + hex[2 * i]]

\* ------------------------------------------------- helpers: content types

\* The object literal of fileExtensionToHexMarker; values are the character
\* codes of the MIME strings.
MimeTable ==
    (<<"j","s","o","n">> :>
        <<97,112,112,108,105,99,97,116,105,111,110,47,106,115,111,110>>) @@
    (<<"p","d","f">> :>
        <<97,112,112,108,105,99,97,116,105,111,110,47,112,100,102>>) @@
    (<<"j","p","g">> :> <<105,109,97,103,101,47,106,112,101,103>>) @@
    (<<"j","p","e","g">> :> <<105,109,97,103,101,47,106,112,101,103>>) @@
    (<<"p","n","g">> :> <<105,109,97,103,101,47,112,110,103>>) @@
    (<<"t","x","t">> :>
        <<116,101,120,116,47,112,108,97,105,110,59,99,104,97,114,115,101,116,
          61,117,116,102,45,56>>)

\* Property names every object literal inherits from Object.prototype: a
\* lookup with one of them yields a truthy value that is not a string.
ObjectPrototypeKeys ==
    { <<"c","o","n","s","t","r","u","c","t","o","r">>,
      <<"_","_","p","r","o","t","o","_","_">>,
      <<"t","o","S","t","r","i","n","g">>,
      <<"v","a","l","u","e","O","f">> }

\* asciiToHex: charCodeAt(0).toString(16) of every character, joined; the
\* conversion does not pad a code below 16 to two digits.
asciiToHex(codes) ==
    Flatten([i \in 1..Len(codes) |->
        IF codes[i] < 16 THEN <<codes[i]>>
                         ELSE <<codes[i] \div 16, codes[i] % 16>>])

\* fileExtensionToHexMarker: table lookup, throw when the value is falsy,
\* otherwise asciiToHex of the value (which throws a TypeError when the
\* value is an inherited property and has no split method).
fileExtensionToHexMarker(fileExtension) ==
    IF fileExtension \in DOMAIN MimeTable
    THEN [ok |-> TRUE, hex |-> asciiToHex(MimeTable[fileExtension]), error |-> ""]
    ELSE IF fileExtension \in ObjectPrototypeKeys
    THEN [ok |-> FALSE, hex |-> <<>>, error |-> "TypeError: s.split is not a function"]
    ELSE [ok |-> FALSE, hex |-> <<>>, error |-> "Unsupported content type"]

\* ------------------------------------------------- helpers: leaf script

MAX_BYTE_SIZE == 520

\* "6f7264", the ASCII codes of "ord" in hex.
ORD_PROTOCOL_ID == <<6, 15, 7, 2, 6, 4>>

toXOnly_Identity(pk) == pk

\* toXOnly: a 32-byte key is kept, otherwise bytes 1..32 (0-based) are taken.
toXOnly(pk) == IF Len(pk) = 32 THEN pk ELSE SubSeq(pk, 2, Min(33, Len(pk)))

RECURSIVE regexChunker_ShortFirst(_, _)
regexChunker_ShortFirst(s, n) ==
    IF Len(s) = 0 THEN <<>>
    ELSE IF Len(s) % n # 0
    THEN <<SubSeq(s, 1, Len(s) % n)>>
            \o regexChunker_ShortFirst(SubSeq(s, (Len(s) % n) + 1, Len(s)), n)
    ELSE <<SubSeq(s, 1, n)>> \o regexChunker_ShortFirst(SubSeq(s, n + 1, Len(s)), n)

\* fileHex.match(/.{1,n}/g): greedy matches from left to right, each of n
\* characters while n remain, the last one of what is left.
RECURSIVE regexChunker(_, _)
regexChunker(s, n) ==
    IF Len(s) = 0 THEN <<>>
    ELSE <<SubSeq(s, 1, Min(n, Len(s)))>>
            \o regexChunker(SubSeq(s, Min(n, Len(s)) + 1, Len(s)), n)

Op(name) == [op |-> name]
Hex(nibbles) == [hex |-> nibbles]
IsOp(tok) == DOMAIN tok = {"op"}

generateInscriptionScriptFromFileHex_AcceptsEmpty(publicKey, contentTypeHex, fileHex) ==
    [ok |-> TRUE, error |-> "",
     asm |-> <<Hex(BufferToHex(toXOnly(publicKey))), Op("OP_CHECKSIG")>>
             \o <<Op("OP_FALSE"), Op("OP_IF"), Hex(ORD_PROTOCOL_ID)>>
             \o <<Hex(<<1, 1>>), Hex(contentTypeHex)>>
             \o <<Op("OP_0")>>
             \o [i \in 1..Len(regexChunker(fileHex, 2 * MAX_BYTE_SIZE)) |->
                   Hex(regexChunker(fileHex, 2 * MAX_BYTE_SIZE)[i])]
             \o <<Op("OP_ENDIF")>>]

\* generateInscriptionScriptFromFileHex: the ASM string, held as the sequence
\* of its space-separated tokens, in the order the code appends them.
generateInscriptionScriptFromFileHex(publicKey, contentTypeHex, fileHex) ==
    IF Len(fileHex) = 0
    THEN [ok |-> FALSE, asm |-> <<>>, error |-> "Inscription data is empty"]
    ELSE [ok |-> TRUE, error |-> "",
          asm |-> <<Hex(BufferToHex(toXOnly(publicKey))), Op("OP_CHECKSIG")>>
                  \o <<Op("OP_FALSE"), Op("OP_IF"), Hex(ORD_PROTOCOL_ID)>>
                  \o <<Hex(<<1, 1>>), Hex(contentTypeHex)>>
                  \o <<Op("OP_0")>>
                  \o [i \in 1..Len(regexChunker(fileHex, 2 * MAX_BYTE_SIZE)) |->
                        Hex(regexChunker(fileHex, 2 * MAX_BYTE_SIZE)[i])]
                  \o <<Op("OP_ENDIF")>>]

\* The opcodes script.fromASM resolves by name.
OPS ==
    [OP_0 |-> 0, OP_FALSE |-> 0, OP_PUSHDATA1 |-> 76, OP_PUSHDATA2 |-> 77,
     OP_1NEGATE |-> 79, OP_RESERVED |-> 80, OP_IF |-> 99, OP_ENDIF |-> 104,
     OP_CHECKSIG |-> 172]

\* The length prefix script.compile writes before a data push.
PushPrefix(size) ==
    IF size < OPS.OP_PUSHDATA1 THEN <<size>>
    ELSE IF size <= 255 THEN <<OPS.OP_PUSHDATA1, size>>
    ELSE <<OPS.OP_PUSHDATA2, size % 256, size \div 256>>

\* script.compile, one chunk: an opcode is one byte; a buffer is pushed with
\* its length prefix, except that the minimal-push rule turns an empty
\* buffer, a single byte 1..16 and the single byte 0x81 into an opcode.
CompileChunk(tok) ==
    IF IsOp(tok) THEN <<OPS[tok.op]>>
    ELSE LET buf == BufferFromHex(tok.hex) IN
         IF Len(buf) = 0 THEN <<OPS.OP_0>>
         ELSE IF Len(buf) = 1 /\ buf[1] >= 1 /\ buf[1] <= 16
         THEN <<OPS.OP_RESERVED + buf[1]>>
         ELSE IF Len(buf) = 1 /\ buf[1] = 129 THEN <<OPS.OP_1NEGATE>>
         ELSE PushPrefix(Len(buf)) \o buf

\* script.fromASM: every token to an opcode or a buffer, then compiled.
fromASM(asm) == Flatten([i \in 1..Len(asm) |-> CompileChunk(asm[i])])

\* parseInt(CONTENT_TYPE_MARKER): the marker byte '01' the placeholder
\* stands for.
CONTENT_TYPE_MARKER == 1

\* leafScript[41] = parseInt(CONTENT_TYPE_MARKER): index 41 counted from 0;
\* a write past the end of a Buffer changes nothing.
PatchMarker(script) ==
    IF Len(script) >= 42 THEN [script EXCEPT ![42] = CONTENT_TYPE_MARKER] ELSE script

\* ------------------------------------------------- cli: the decoder

\* isHex: /^[0-9a-fA-F]+$/ on a string given as nibbles (non-empty).
isHex(hex) == Len(hex) > 0

\* extractInscriptionFromTransaction: validates the hex, decodes it to bytes
\* and then throws unconditionally.
extractInscriptionFromTransaction(txhex) ==
    IF ~isHex(txhex) THEN [ok |-> FALSE, data |-> <<>>, error |-> "txhex must be hex."]
    ELSE IF Len(txhex) % 2 # 0
    THEN [ok |-> FALSE, data |-> <<>>,
          error |-> "txhex must have an even number of hex characters."]
    ELSE [ok |-> FALSE, data |-> <<>>, error |-> "Not implemented"]

\* ------------------------------------------------- lib: btcToSats

Digits == {"0", "1", "2", "3", "4", "5", "6", "7", "8", "9"}
DigitValue ==
    ("0" :> 0) @@ ("1" :> 1) @@ ("2" :> 2) @@ ("3" :> 3) @@ ("4" :> 4) @@
    ("5" :> 5) @@ ("6" :> 6) @@ ("7" :> 7) @@ ("8" :> 8) @@ ("9" :> 9)
WhiteSpace == {" ", "\t", "\n"}

AllDigits(s) == \A i \in 1..Len(s) : s[i] \in Digits

\* String.prototype.trim: white space is removed at both ends.
RECURSIVE TrimStart(_)
TrimStart(s) ==
    IF s # <<>> /\ Head(s) \in WhiteSpace THEN TrimStart(Tail(s)) ELSE s
RECURSIVE TrimEnd(_)
TrimEnd(s) ==
    IF s # <<>> /\ s[Len(s)] \in WhiteSpace
    THEN TrimEnd(SubSeq(s, 1, Len(s) - 1)) ELSE s
Trim(s) == TrimEnd(TrimStart(s))

\* The number of digits \d+ consumes at the head of s.
RECURSIVE LeadingDigits(_)
LeadingDigits(s) ==
    IF s # <<>> /\ Head(s) \in Digits THEN 1 + LeadingDigits(Tail(s)) ELSE 0

\* /^\d+(\.\d{1,8})?$/.test(s)
AmountRegexTest(s) ==
    LET n == LeadingDigits(s) IN
    /\ n >= 1
    /\ \/ n = Len(s)
       \/ /\ s[n + 1] = "."
          /\ Len(s) - (n + 1) >= 1
          /\ Len(s) - (n + 1) <= 8
          /\ AllDigits(SubSeq(s, n + 2, Len(s)))

\* s.split("."): the pieces between the points.
RECURSIVE SplitAtPoint(_)
SplitAtPoint(s) ==
    IF \A i \in 1..Len(s) : s[i] # "." THEN <<s>>
    ELSE LET k == CHOOSE i \in 1..Len(s) :
                    s[i] = "." /\ \A j \in 1..(i - 1) : s[j] # "."
         IN <<SubSeq(s, 1, k - 1)>> \o SplitAtPoint(SubSeq(s, k + 1, Len(s)))

\* Number(digits) of a string of decimal digits (0 for the empty string).
RECURSIVE NumberOfDigits(_)
NumberOfDigits(ds) ==
    IF ds = <<>> THEN 0
    ELSE 10 * NumberOfDigits(SubSeq(ds, 1, Len(ds) - 1)) + DigitValue[ds[Len(ds)]]

\* 1e8, the satoshis of one whole unit.
SatsPerBtc == 100000000

\* Amounts as [hi, lo] = hi * 1e8 + lo with 0 <= lo < 1e8.
Sats(hi, lo) == [hi |-> hi, lo |-> lo]
SatsLess(a, b) == a.hi < b.hi \/ (a.hi = b.hi /\ a.lo < b.lo)
SatsLeq(a, b) == a = b \/ SatsLess(a, b)
SatsSucc(a) ==
    IF a.lo + 1 = SatsPerBtc THEN Sats(a.hi + 1, 0) ELSE Sats(a.hi, a.lo + 1)
SatsPred(a) ==
    IF a.lo = 0 THEN Sats(a.hi - 1, SatsPerBtc - 1) ELSE Sats(a.hi, a.lo - 1)
SatsSub(a, b) ==
    IF a.lo >= b.lo THEN Sats(a.hi - b.hi, a.lo - b.lo)
    ELSE Sats(a.hi - b.hi - 1, a.lo + SatsPerBtc - b.lo)
SatsAdd(a, b) ==
    IF a.lo + b.lo >= SatsPerBtc THEN Sats(a.hi + b.hi + 1, a.lo + b.lo - SatsPerBtc)
    ELSE Sats(a.hi + b.hi, a.lo + b.lo)

\* 2^53 = 9007199254740992.
TwoPow53 == Sats(90071992, 54740992)

\* The double nearest to the integer v, for v below 2^54: every integer up
\* to 2^53 is a double; from there to 2^54 the doubles are the even integers
\* and a tie goes to the one with the even significand, a multiple of 4.
RoundToDouble(v) ==
    IF SatsLeq(v, TwoPow53) \/ v.lo % 2 = 0 THEN v
    ELSE IF (v.lo + 1) % 4 = 0 THEN SatsSucc(v) ELSE SatsPred(v)

btcToSats_PadsToSeven(btcStr) ==
    LET s == Trim(btcStr) IN
    IF ~AmountRegexTest(s)
    THEN [ok |-> FALSE, sats |-> Sats(0, 0),
          error |-> "Amount must be a number with up to 8 decimals."]
    ELSE LET parts == SplitAtPoint(s)
             ints == parts[1]
             frac == IF Len(parts) >= 2 THEN parts[2] ELSE <<>>
             fracPadded == SubSeq(frac \o <<"0","0","0","0","0","0","0","0">>, 1, 7)
         IN [ok |-> TRUE, error |-> "",
             sats |-> RoundToDouble(Sats(NumberOfDigits(ints), NumberOfDigits(fracPadded)))]

\* btcToSats: trim, test, split, pad the fraction to 8 digits, and
\* Number(ints) * 1e8 + Number(fracPadded) in double arithmetic.  The
\* product is a multiple of 2^8 and exact; the sum is rounded.
btcToSats(btcStr) ==
    LET s == Trim(btcStr) IN
    IF ~AmountRegexTest(s)
    THEN [ok |-> FALSE, sats |-> Sats(0, 0),
          error |-> "Amount must be a number with up to 8 decimals."]
    ELSE LET parts == SplitAtPoint(s)
             ints == parts[1]
             frac == IF Len(parts) >= 2 THEN parts[2] ELSE <<>>
             fracPadded == SubSeq(frac \o <<"0","0","0","0","0","0","0","0">>, 1, 8)
         IN [ok |-> TRUE, error |-> "",
             sats |-> RoundToDouble(Sats(NumberOfDigits(ints), NumberOfDigits(fracPadded)))]

\* ------------------------------------------------- lib: inscribe, pure parts

\* The fixed fee of ./constants, in satoshis.
TRANSACTION_FEE_IN_SATOSHIS == 1000
FeeSats == Sats(0, TRANSACTION_FEE_IN_SATOSHIS)

LowerCase ==
    ("P" :> "p") @@ ("N" :> "n") @@ ("G" :> "g") @@ ("T" :> "t") @@ ("X" :> "x") @@
    ("R" :> "r") @@ ("E" :> "e") @@ ("S" :> "s") @@ ("M" :> "m") @@ ("A" :> "a") @@
    ("I" :> "i")
ToLowerCase(s) ==
    [i \in 1..Len(s) |-> IF s[i] \in DOMAIN LowerCase THEN LowerCase[s[i]] ELSE s[i]]

\* (opts.fileExt ?? "bin").replace(/^\./, "").toLowerCase()
NormalizeExt(hasExt, fileExt) ==
    LET e == IF hasExt THEN fileExt ELSE <<"b","i","n">>
        d == IF e # <<>> /\ Head(e) = "." THEN Tail(e) ELSE e
    IN ToLowerCase(d)

\* ECPair.fromPrivateKey(...).publicKey: the 33-byte compressed key; the
\* curve point is abstracted to a key filled with the private key's number.
PublicKeyOf(privateKey) == <<2>> \o [i \in 1..32 |-> privateKey]

\* bip341 taprootOutputScript and address.fromOutputScript: a commitment to
\* the internal key and the leaf, encoded for the network.
P2trAddress(publicKey, leafScript, network) ==
    [internalKey |-> toXOnly(publicKey), leaf |-> leafScript, network |-> network]

HexChars ==
    Digits \cup {"a", "b", "c", "d", "e", "f", "A", "B", "C", "D", "E", "F"}

\* /^[0-9a-fA-F]{64}$/.test(txid)
TxidRegexTest(txid) ==
    Len(txid) = 64 /\ \A i \in 1..Len(txid) : txid[i] \in HexChars

\* JavaScript numbers that stand for an output index.
NumInt(v) == [kind |-> "int", value |-> v]
NumFrac == [kind |-> "frac", value |-> 0]
NumNaN == [kind |-> "nan", value |-> 0]
NumUndefined == [kind |-> "undefined", value |-> 0]

\* Number(s) on the strings of the prompt: white space is trimmed, the empty
\* string is 0, a decimal literal with an optional sign is its value, and
\* any other text of the model's alphabet is NaN.
NumberOfString(s) ==
    LET t == Trim(s)
        neg == t # <<>> /\ Head(t) = "-"
        u == IF neg THEN Tail(t) ELSE t
    IN IF t = <<>> THEN NumInt(0)
       ELSE IF u # <<>> /\ AllDigits(u)
       THEN NumInt(IF neg THEN 0 - NumberOfDigits(u) ELSE NumberOfDigits(u))
       ELSE IF AmountRegexTest(u)
       THEN IF \A i \in (LeadingDigits(u) + 2)..Len(u) : u[i] = "0"
            THEN NumInt(IF neg THEN 0 - NumberOfDigits(SplitAtPoint(u)[1])
                               ELSE NumberOfDigits(SplitAtPoint(u)[1]))
            ELSE NumFrac
       ELSE NumNaN

ValidateFunding_FeeNotStrict(txid, outputIndex, amountSats) ==
    IF ~TxidRegexTest(txid) THEN "Invalid txid hex length."
    ELSE IF ~(outputIndex.kind = "int" /\ outputIndex.value >= 0) THEN "Invalid vout."
    ELSE IF SatsLess(amountSats, FeeSats) THEN "Amount must exceed fee."
    ELSE ""

\* The three checks between collecting the funding output and building the
\* transaction; "" when all pass.
ValidateFunding(txid, outputIndex, amountSats) ==
    IF ~TxidRegexTest(txid) THEN "Invalid txid hex length."
    ELSE IF ~(outputIndex.kind = "int" /\ outputIndex.value >= 0) THEN "Invalid vout."
    ELSE IF SatsLeq(amountSats, FeeSats) THEN "Amount must exceed fee."
    ELSE ""

\* Addresses address.toOutputScript decodes; any other string makes it throw.
ValidAddresses == {"addrA", "addrB"}

NewPsetInput(txid, outputIndex, address, amountSats) ==
    [txid |-> txid, index |-> outputIndex.value, script |-> address,
     value |-> amountSats]

NewOutputs_NoFeeDeducted(amountSats, changeAddress) ==
    << [value |-> amountSats, script |-> changeAddress],
       [value |-> FeeSats, script |-> ""] >>

\* The change output and the fee output.
NewOutputs(amountSats, changeAddress) ==
    << [value |-> SatsSub(amountSats, FeeSats), script |-> changeAddress],
       [value |-> FeeSats, script |-> ""] >>

\* Signing, finalizing and extracting: the hex is a function of the
\* transaction, the leaf and the key (Schnorr signing draws no randomness).
TxHex(txInput, outputs, leafScript, privateKey, network) ==
    [version |-> 2, input |-> txInput, outputs |-> outputs,
     witness |-> [signedBy |-> privateKey, leaf |-> leafScript],
     genesis |-> network]

\* ------------------------------------------------- the explorer client

\* The explorer table of the client, keyed by network name.
networkExplorers ==
    ("regtest" :> "http://localhost:3001") @@
    ("testnet" :> "https://blockstream.info/liquidtestnet/api") @@
    ("mainnet" :> "https://blockstream.info/liquid/api")

\* new EsploraClient(networkName): API_URL is the table's entry, and
\* undefined (the empty tuple) for a name the table does not have.
EsploraClient(networkName) ==
    [API_URL |-> IF networkName \in DOMAIN networkExplorers
                 THEN <<networkExplorers[networkName]>> ELSE <<>>]

\* What fetch(`${API_URL}/tx`, {method: "POST", body}) may settle with: with
\* an undefined API_URL the URL "undefined/tx" does not parse and the promise
\* rejects before any request is made; otherwise the explorer accepts the
\* transaction, refuses it, or cannot be reached.
Rejected(why) == [kind |-> "rejected", status |-> 0, text |-> why]
Response(status, text) == [kind |-> "response", status |-> status, text |-> text]
FetchOutcomes(client) ==
    IF client.API_URL = <<>>
    THEN { Rejected("TypeError: Failed to parse URL from undefined/tx") }
    ELSE { Response(200, "txid"), Response(400, "bad-txns"),
           Rejected("TypeError: fetch failed") }

broadcastTransactionHex_IgnoresStatus(settled) ==
    IF settled.kind = "rejected"
    THEN [ok |-> FALSE, value |-> "", error |-> settled.text]
    ELSE [ok |-> TRUE, value |-> settled.text, error |-> ""]

\* broadcastTransactionHex, from the settling of its fetch on: a rejection
\* propagates, a status other than 200 throws, status 200 returns the text.
broadcastTransactionHex(settled) ==
    IF settled.kind = "rejected"
    THEN [ok |-> FALSE, value |-> "", error |-> settled.text]
    ELSE IF settled.status # 200
    THEN [ok |-> FALSE, value |-> "", error |-> "Broadcast failed: " \o settled.text]
    ELSE [ok |-> TRUE, value |-> settled.text, error |-> ""]

\* ------------------------------------------------- cli: the inscribe command

\* /^[0-9a-fA-F]+$/.test(str) on a string of characters.
IsHexText(str) == Len(str) > 0 /\ \A i \in 1..Len(str) : str[i] \in HexChars

\* assertHexPrivateKey: "" when the key passes, otherwise the error thrown.
assertHexPrivateKey(pk) ==
    IF ~IsHexText(pk) THEN "Private key must be hex."
    ELSE IF Len(pk) # 64 THEN "Private key must be 32 bytes (64 hex chars)."
    ELSE ""

\* The network objects of liquidjs-lib, by the property the CLI reads; of
\* each object only the name is kept.
liquidNetworks ==
    [liquid |-> [name |-> "liquid"],
     testnet |-> [name |-> "testnet"],
     regtest |-> [name |-> "regtest"]]

\* resolveNetwork: the argument, or "mainnet" when there is none, in lower
\* case, to the network object; any other word throws.
resolveNetwork(hasArg, n) ==
    LET v == ToLowerCase(IF hasArg THEN n ELSE <<"m","a","i","n","n","e","t">>) IN
    IF v = <<"m","a","i","n","n","e","t">>
    THEN [ok |-> TRUE, network |-> liquidNetworks.liquid]
    ELSE IF v = <<"t","e","s","t","n","e","t">>
    THEN [ok |-> TRUE, network |-> liquidNetworks.testnet]
    ELSE IF v = <<"r","e","g","t","e","s","t">>
    THEN [ok |-> TRUE, network |-> liquidNetworks.regtest]
    ELSE [ok |-> FALSE, network |-> [name |-> ""]]

\* The value of one hexadecimal digit.
HexDigitValue(ch) ==
    IF ch \in Digits THEN DigitValue[ch]
    ELSE CASE ch \in {"a", "A"} -> 10 [] ch \in {"b", "B"} -> 11
           [] ch \in {"c", "C"} -> 12 [] ch \in {"d", "D"} -> 13
           [] ch \in {"e", "E"} -> 14 [] OTHER -> 15

\* Buffer.from(_privateKeyHex, "hex"), of which the model keeps the first
\* byte as the number that stands for the key.
KeyNumber(pk) == BufferFromHex([i \in 1..Len(pk) |-> HexDigitValue(pk[i])])[1]

\* ------------------------------------------------- inputs of the model

\* A string of n copies of ch between lead and trail blanks.
Repeat(n, ch) == [i \in 1..n |-> ch]
Padded(lead, body, trail) == Repeat(lead, " ") \o body \o Repeat(trail, " ")

Calls == {1, 2}

\* Funding txids a caller may give: 64 hex characters, one short, one long,
\* a non-hex character, and 64 hex characters inside blanks.
TxidInputs(ch) ==
    { Repeat(64, ch), Repeat(63, ch), Repeat(65, ch),
      Repeat(63, ch) \o <<"g">>, Padded(1, Repeat(64, ch), 1), <<>> }

\* What a user may type for the output index.
VoutAnswers ==
    { <<"0">>, <<"1">>, <<>>, <<"-","1">>, <<"1",".","5">>, <<"a","b","c">>,
      <<" ","2"," ">> }

\* opts.vout of a non-interactive call.
VoutOptions == { NumUndefined, NumInt(0), NumInt(1), NumInt(0 - 1), NumFrac, NumNaN }

\* Amounts around the fee of 0.00001: below, equal, above, and not amounts.
AmountInputs ==
    { <<"0",".","0","0","0","0","1">>,
      <<"0",".","0","0","0","0","0","9","9","9">>,
      <<"0",".","0","0","0","0","1","0","0","1">>,
      <<"1">>, <<"a","b","c">>, <<>> }

ChangeInputs == { "addrA", "bogus", "" }

ExtInputs ==
    { [has |-> TRUE, ext |-> <<"p","n","g">>],
      [has |-> TRUE, ext |-> <<".","P","N","G">>],
      [has |-> TRUE, ext |-> <<"t","x","t">>],
      [has |-> TRUE, ext |-> <<"g","i","f">>],
      [has |-> TRUE, ext |-> <<"c","o","n","s","t","r","u","c","t","o","r">>],
      [has |-> TRUE, ext |-> <<>>],
      [has |-> FALSE, ext |-> <<>>] }

DataInputs == { <<>>, <<5>>, <<17, 34>> }

NoFunding == [txid |-> <<>>, vout |-> NumUndefined, voutAnswer |-> <<>>,
              amountBtc |-> <<>>, changeAddress |-> ""]

\* The arguments of one inscribe call and, for an interactive call, what the
\* user types at its prompts; for a non-interactive call, its opts.
OptsInputs(exts, datas, txids, voutAnswers, vouts, amounts, changes) ==
    { [interactive |-> TRUE, hasExt |-> e.has, fileExt |-> e.ext, data |-> d,
       privateKey |-> 7, network |-> "regtest",
       funding |-> [txid |-> t, vout |-> NumUndefined, voutAnswer |-> va,
                    amountBtc |-> a, changeAddress |-> ca]] :
         e \in exts, d \in datas, t \in txids, va \in voutAnswers,
         a \in amounts, ca \in changes }
    \cup
    { [interactive |-> FALSE, hasExt |-> e.has, fileExt |-> e.ext, data |-> d,
       privateKey |-> 7, network |-> "regtest",
       funding |-> [txid |-> t, vout |-> v, voutAnswer |-> <<>>,
                    amountBtc |-> a, changeAddress |-> ca]] :
         e \in exts, d \in datas, t \in txids, v \in vouts, a \in amounts,
         ca \in changes }

\* ------------------------------------------------- state

VARIABLES
    opts,       \* the arguments of each inscribe call
    pc,         \* where each call stands
    local,      \* the local variables of each call
    file,       \* inscription-tx.hex in the working directory
    posted,     \* the bodies POSTed to the explorer's /tx, in order
    codec,      \* a direct run of the helpers: key, extension, content
    amount,     \* a direct run of btcToSats
    cli,        \* each run of the inscribe command: arguments and position
    keyFile     \* private-key.txt in the directory of the inscribed file

vars == <<opts, pc, local, file, posted, codec, amount, cli, keyFile>>
inscribeVars == <<opts, pc, local, file, posted>>
cliVars == <<cli, keyFile>>

InitLocal ==
    [ext |-> <<>>, asm |-> <<>>, leafScript |-> <<>>, address |-> <<>>,
     asked |-> 0, txid |-> <<>>,
     outputIndex |-> NumUndefined, amountSats |-> <<>>, changeAddress |-> "",
     txInput |-> <<>>, outputs |-> <<>>, hex |-> <<>>, error |-> "",
     wrote |-> FALSE, client |-> <<>>, settled |-> <<>>, result |-> <<>>]

NoFile == [exists |-> FALSE, content |-> <<>>]
IdleCodec == [pc |-> "idle"]
IdleAmount == [pc |-> "idle"]
NoKeyFile == [exists |-> FALSE, content |-> <<>>, original |-> <<>>, writes |-> 0]
IdleCli == [pc |-> "idle"]
IdleOpts == [interactive |-> FALSE, hasExt |-> FALSE, fileExt |-> <<>>, data |-> <<>>,
             privateKey |-> 7, network |-> "regtest", funding |-> NoFunding]

\* ------------------------------------------------- inscribe, step by step

Fail(c, l, message) ==
    /\ pc' = [pc EXCEPT ![c] = "failed"]
    /\ local' = [local EXCEPT ![c] = [l EXCEPT !.error = message]]

\* Lines 56-69: the extension, the key, the content-type marker and the ASM
\* of the leaf; a throw of either helper rejects the call.
Begin(c) ==
    /\ pc[c] = "start"
    /\ LET ext == NormalizeExt(opts[c].hasExt, opts[c].fileExt)
           marker == fileExtensionToHexMarker(ext)
           gen == generateInscriptionScriptFromFileHex(
                      PublicKeyOf(opts[c].privateKey), marker.hex,
                      BufferToHex(opts[c].data))
           l == [local[c] EXCEPT !.ext = ext]
       IN IF ~marker.ok THEN Fail(c, l, marker.error)
          ELSE IF ~gen.ok THEN Fail(c, l, gen.error)
          ELSE /\ pc' = [pc EXCEPT ![c] = "generated"]
               /\ local' = [local EXCEPT ![c] = [l EXCEPT !.asm = gen.asm]]
    /\ UNCHANGED <<opts, file, posted, codec, amount, cliVars>>

\* Lines 126-198 up to the call of fs.writeFile: the three checks, the
\* input, the two outputs, signing and extraction.
Proceed(c, l0, txid, outputIndex, amountSats, changeAddress) ==
    LET l == [l0 EXCEPT !.txid = txid, !.outputIndex = outputIndex,
                        !.amountSats = <<amountSats>>,
                        !.changeAddress = changeAddress]
        problem == ValidateFunding(txid, outputIndex, amountSats)
        txInput == NewPsetInput(txid, outputIndex, l.address[1], amountSats)
        outputs == NewOutputs(amountSats, changeAddress)
    IN IF problem # "" THEN Fail(c, l, problem)
       ELSE IF changeAddress \notin ValidAddresses
       THEN Fail(c, [l EXCEPT !.txInput = <<txInput>>], "Invalid address")
       ELSE /\ pc' = [pc EXCEPT ![c] = "writing"]
            /\ local' = [local EXCEPT ![c] =
                 [l EXCEPT !.txInput = <<txInput>>, !.outputs = outputs,
                           !.hex = <<TxHex(txInput, outputs, l.leafScript,
                                          opts[c].privateKey, opts[c].network)>>]]

\* Lines 70-98 of an interactive call (the leaf, the address, the first
\* question), lines 70-198 of a non-interactive one.
Derive(c) ==
    /\ pc[c] = "generated"
    /\ LET leafScript == PatchMarker(fromASM(local[c].asm))
           l == [local[c] EXCEPT
                   !.leafScript = leafScript,
                   !.address = <<P2trAddress(PublicKeyOf(opts[c].privateKey),
                                             leafScript, opts[c].network)>>]
           f == opts[c].funding
       IN IF opts[c].interactive
          THEN /\ pc' = [pc EXCEPT ![c] = "askEnter"]
               /\ local' = [local EXCEPT ![c] = [l EXCEPT !.asked = 1]]
          ELSE IF \/ f.txid = <<>> \/ f.vout.kind = "undefined"
                  \/ f.amountBtc = <<>> \/ f.changeAddress = ""
          THEN Fail(c, l, "Non-interactive mode requires { txid, vout, amountBtc }.")
          ELSE LET sats == btcToSats(f.amountBtc) IN
               IF ~sats.ok
               THEN Fail(c, [l EXCEPT !.txid = Trim(f.txid), !.outputIndex = f.vout],
                         sats.error)
               ELSE Proceed(c, l, Trim(f.txid), f.vout, sats.sats, f.changeAddress)
    /\ UNCHANGED <<opts, file, posted, codec, amount, cliVars>>

\* Line 96: the user presses Enter; line 99 asks for the txid.
AnswerEnter(c) ==
    /\ pc[c] = "askEnter"
    /\ pc' = [pc EXCEPT ![c] = "askTxid"]
    /\ local' = [local EXCEPT ![c].asked = 2]
    /\ UNCHANGED <<opts, file, posted, codec, amount, cliVars>>

\* Line 99: the answer is trimmed; line 100 asks for the output index.
AnswerTxid(c) ==
    /\ pc[c] = "askTxid"
    /\ LET answer == opts[c].funding.txid IN
         local' = [local EXCEPT ![c].txid = Trim(answer), ![c].asked = 3]
    /\ pc' = [pc EXCEPT ![c] = "askVout"]
    /\ UNCHANGED <<opts, file, posted, codec, amount, cliVars>>

\* Line 100: Number(answer.trim()); line 101 asks for the amount.
AnswerVout(c) ==
    /\ pc[c] = "askVout"
    /\ LET answer == opts[c].funding.voutAnswer IN
         local' = [local EXCEPT ![c].outputIndex = NumberOfString(Trim(answer)),
                                ![c].asked = 4]
    /\ pc' = [pc EXCEPT ![c] = "askAmount"]
    /\ UNCHANGED <<opts, file, posted, codec, amount, cliVars>>

\* Lines 101-102: btcToSats of the trimmed answer, which may throw; line 103
\* asks for the change address.
AnswerAmount(c) ==
    /\ pc[c] = "askAmount"
    /\ LET answer == opts[c].funding.amountBtc
           sats == btcToSats(Trim(answer)) IN
         IF ~sats.ok THEN Fail(c, local[c], sats.error)
         ELSE /\ pc' = [pc EXCEPT ![c] = "askChange"]
              /\ local' = [local EXCEPT ![c].amountSats = <<sats.sats>>,
                                        ![c].asked = 5]
    /\ UNCHANGED <<opts, file, posted, codec, amount, cliVars>>

\* Lines 103-198: the change address, then the checks and the transaction.
AnswerChange(c) ==
    /\ pc[c] = "askChange"
    /\ LET answer == opts[c].funding.changeAddress IN
         Proceed(c, local[c], local[c].txid, local[c].outputIndex,
                 local[c].amountSats[1], answer)
    /\ UNCHANGED <<opts, file, posted, codec, amount, cliVars>>

\* Lines 198-201: fs.writeFile settles.  When it rejects, inscribe throws
\* and nothing else happens; when it resolves the file holds the hex, the
\* client is made from the network's name and the hex is handed to fetch,
\* which sends the request unless the URL does not parse.
WriteFileDone(c) ==
    /\ pc[c] = "writing"
    /\ \E outcome \in {"written", "EACCES"} :
         IF outcome # "written"
         THEN /\ Fail(c, local[c], "EACCES: permission denied, open 'inscription-tx.hex'")
              /\ UNCHANGED <<file, posted>>
         ELSE LET client == EsploraClient(opts[c].network) IN
              /\ file' = [exists |-> TRUE, content |-> local[c].hex]
              /\ posted' = IF client.API_URL = <<>> THEN posted
                           ELSE Append(posted, [call |-> c, hex |-> local[c].hex[1],
                                                network |-> opts[c].network,
                                                url |-> client.API_URL[1] \o "/tx"])
              /\ pc' = [pc EXCEPT ![c] = "broadcasting"]
              /\ local' = [local EXCEPT ![c].wrote = TRUE, ![c].client = <<client>>]
    /\ UNCHANGED <<opts, codec, amount, cliVars>>

\* broadcastTransactionHex lines 55-66 and inscribe lines 201-203: the fetch
\* settles; inscribe returns the result or throws what the client throws.
BroadcastResponse(c) ==
    /\ pc[c] = "broadcasting"
    /\ \E settled \in FetchOutcomes(local[c].client[1]) :
         LET resp == broadcastTransactionHex(settled)
             l == [local[c] EXCEPT !.settled = <<settled>>]
         IN IF ~resp.ok THEN Fail(c, l, resp.error)
            ELSE /\ pc' = [pc EXCEPT ![c] = "done"]
                 /\ local' = [local EXCEPT ![c] =
                       [l EXCEPT !.result =
                          << [address |-> l.address[1],
                              txHex |-> l.hex[1],
                              broadcast |-> resp.value] >>]]
    /\ UNCHANGED <<opts, file, posted, codec, amount, cliVars>>

Next ==
    \E c \in Calls :
        \/ Begin(c)
        \/ Derive(c)
        \/ AnswerEnter(c)
        \/ AnswerTxid(c)
        \/ AnswerVout(c)
        \/ AnswerAmount(c)
        \/ AnswerChange(c)
        \/ WriteFileDone(c)
        \/ BroadcastResponse(c)

\* One call with every input of the model; the other call is never made.
Init ==
    /\ \E o \in OptsInputs(ExtInputs, DataInputs, TxidInputs("a"), VoutAnswers,
                           VoutOptions, AmountInputs, ChangeInputs) :
         opts = (1 :> o) @@ (2 :> IdleOpts)
    /\ pc = [c \in Calls |-> IF c = 1 THEN "start" ELSE "idle"]
    /\ local = [c \in Calls |-> InitLocal]
    /\ file = NoFile
    /\ cli = [r \in Calls |-> IdleCli]
    /\ keyFile = NoKeyFile
    /\ posted = <<>>
    /\ codec = IdleCodec
    /\ amount = IdleAmount

Spec == Init /\ [][Next]_vars

\* Two calls with distinct inputs, each interactive or not, made at once.
InitConcurrent ==
    /\ \E o1 \in OptsInputs({[has |-> TRUE, ext |-> <<"p","n","g">>]}, {<<5>>},
                            {Repeat(64, "a")}, {<<"0">>}, {NumInt(0)},
                            {<<"1">>}, {"addrA"}),
          o2 \in OptsInputs({[has |-> TRUE, ext |-> <<"t","x","t">>]}, {<<17, 34>>},
                            {Repeat(64, "B")}, {<<"1">>}, {NumInt(1)},
                            {<<"0",".","0","0","0","0","1","0","0","1">>},
                            {"addrB"}) :
         opts = (1 :> o1) @@ (2 :> o2)
    /\ pc = [c \in Calls |-> "start"]
    /\ local = [c \in Calls |-> InitLocal]
    /\ file = NoFile
    /\ cli = [r \in Calls |-> IdleCli]
    /\ keyFile = NoKeyFile
    /\ posted = <<>>
    /\ codec = IdleCodec
    /\ amount = IdleAmount

SpecConcurrent == InitConcurrent /\ [][Next]_vars

\* ------------------------------------------------- the inscribe command, step by step

\* path.extname(filePath).replace(/^\./, "").toLowerCase() || "bin", given
\* the extension of the file name without its dot.
CliExt(extname) == IF extname = <<>> THEN <<"b","i","n">> ELSE ToLowerCase(extname)

CliFail(r, message) ==
    cli' = [cli EXCEPT ![r].pc = "failed", ![r].error = message, ![r].exitCode = 1]

\* cli.ts lines 193-203: the file exists, the network is resolved, a key
\* given as argument is checked, and without one the key file is read.
CliStart(r) ==
    /\ cli[r].pc = "start"
    /\ LET net == resolveNetwork(cli[r].hasNetwork, cli[r].networkArg)
           problem == assertHexPrivateKey(cli[r].pkArg)
       IN IF ~net.ok THEN CliFail(r, "Invalid network")
          ELSE IF cli[r].hasPk /\ Len(cli[r].pkArg) > 0
          THEN IF problem # "" THEN CliFail(r, problem)
               ELSE cli' = [cli EXCEPT ![r].pc = "readData",
                                       ![r].network = net.network.name,
                                       ![r].privateKey = cli[r].pkArg]
          ELSE cli' = [cli EXCEPT ![r].pc = "readingKey",
                                  ![r].network = net.network.name,
                                  ![r].usesKeyFile = TRUE]
    /\ UNCHANGED <<inscribeVars, codec, amount, keyFile>>

\* readOrCreatePrivateKey lines 85-97: the read of private-key.txt settles.
\* A file that is there is trimmed and checked; for a missing one a fresh
\* key is drawn and its write begins.
CliKeyRead(r) ==
    /\ cli[r].pc = "readingKey"
    /\ IF keyFile.exists
       THEN LET pk == Trim(keyFile.content)
                problem == assertHexPrivateKey(pk)
            IN IF problem # "" THEN CliFail(r, problem)
               ELSE cli' = [cli EXCEPT ![r].pc = "readData", ![r].privateKey = pk]
       ELSE cli' = [cli EXCEPT ![r].pc = "writingKey", ![r].privateKey = cli[r].fresh,
                               ![r].created = TRUE]
    /\ UNCHANGED <<inscribeVars, codec, amount, keyFile>>

\* readOrCreatePrivateKey lines 97-98: fs.writeFile(pkPath, pk + "\n")
\* replaces whatever the file holds by then.
CliKeyWritten(r) ==
    /\ cli[r].pc = "writingKey"
    /\ keyFile' = [keyFile EXCEPT !.exists = TRUE,
                                  !.content = cli[r].privateKey \o <<"\n">>,
                                  !.writes = keyFile.writes + 1]
    /\ cli' = [cli EXCEPT ![r].pc = "readData"]
    /\ UNCHANGED <<inscribeVars, codec, amount>>

\* cli.ts lines 206-213: the data is read and lib's inscribe is called with
\* the resolved network, the key and the extension; it runs interactively.
CliCallInscribe(r) ==
    /\ cli[r].pc = "readData"
    /\ opts' = [opts EXCEPT ![r] =
          [interactive |-> TRUE, hasExt |-> TRUE, fileExt |-> CliExt(cli[r].extname),
           data |-> cli[r].data, privateKey |-> KeyNumber(cli[r].privateKey),
           network |-> cli[r].network, funding |-> cli[r].answers]]
    /\ pc' = [pc EXCEPT ![r] = "start"]
    /\ cli' = [cli EXCEPT ![r].pc = "inscribing"]
    /\ UNCHANGED <<local, file, posted, codec, amount, keyFile>>

\* cli.ts lines 217-233: inscribe settled; an error sets the exit code, a
\* result with txHex starts the command's own write of inscription-tx.hex.
CliInscribeSettled(r) ==
    /\ cli[r].pc = "inscribing"
    /\ pc[r] \in {"done", "failed"}
    /\ IF pc[r] = "failed" THEN CliFail(r, local[r].error)
       ELSE cli' = [cli EXCEPT ![r].pc = "writingHex"]
    /\ UNCHANGED <<inscribeVars, codec, amount, keyFile>>

\* cli.ts lines 221-226: the command's write of inscription-tx.hex lands.
CliHexWritten(r) ==
    /\ cli[r].pc = "writingHex"
    /\ file' = [exists |-> TRUE, content |-> <<local[r].result[1].txHex>>]
    /\ cli' = [cli EXCEPT ![r].pc = "done"]
    /\ UNCHANGED <<opts, pc, local, posted, codec, amount, keyFile>>

NextCli ==
    \E r \in Calls :
        \/ CliStart(r)
        \/ CliKeyRead(r)
        \/ CliKeyWritten(r)
        \/ CliCallInscribe(r)
        \/ CliInscribeSettled(r)
        \/ CliHexWritten(r)
        \/ Begin(r)
        \/ Derive(r)
        \/ AnswerEnter(r)
        \/ AnswerTxid(r)
        \/ AnswerVout(r)
        \/ AnswerAmount(r)
        \/ AnswerChange(r)
        \/ WriteFileDone(r)
        \/ BroadcastResponse(r)

\* What the network argument may be: absent, the three documented words,
\* one of them in capitals, and an undocumented word.
NetworkArgs ==
    { [has |-> FALSE, arg |-> <<>>],
      [has |-> TRUE, arg |-> <<"m","a","i","n","n","e","t">>],
      [has |-> TRUE, arg |-> <<"t","e","s","t","n","e","t">>],
      [has |-> TRUE, arg |-> <<"r","e","g","t","e","s","t">>],
      [has |-> TRUE, arg |-> <<"R","E","G","T","E","S","T">>],
      [has |-> TRUE, arg |-> <<"s","i","g","n","e","t">>] }

\* What the private key argument may be: absent, empty, a key, a short key.
PkArgs ==
    { [has |-> FALSE, arg |-> <<>>], [has |-> TRUE, arg |-> <<>>],
      [has |-> TRUE, arg |-> Repeat(64, "c")], [has |-> TRUE, arg |-> Repeat(63, "c")] }

\* What private-key.txt may hold when the runs start: nothing (no file), a
\* key as the command writes it, a key inside blanks, a short key, text that
\* is not hex, and an empty file.
KeyFileInputs ==
    { NoKeyFile } \cup
    { [exists |-> TRUE, content |-> k, original |-> <<k>>, writes |-> 0] :
        k \in { Repeat(64, "a") \o <<"\n">>, Padded(1, Repeat(64, "B"), 2),
                Repeat(63, "a") \o <<"\n">>, Repeat(63, "a") \o <<"g", "\n">>, <<>> } }

\* The arguments of one run of the command, the key crypto.randomBytes
\* would give it, and what its user types at the prompts of inscribe.
CliInputs(networks, pks, fresh, txid) ==
    { [pc |-> "start", hasNetwork |-> n.has, networkArg |-> n.arg,
       hasPk |-> k.has, pkArg |-> k.arg, fresh |-> fresh,
       extname |-> <<"P","N","G">>, data |-> <<5>>,
       answers |-> [txid |-> txid, vout |-> NumUndefined, voutAnswer |-> <<"0">>,
                    amountBtc |-> <<"1">>, changeAddress |-> "addrA"],
       network |-> "", privateKey |-> <<>>, usesKeyFile |-> FALSE,
       created |-> FALSE, error |-> "", exitCode |-> 0] :
         n \in networks, k \in pks }

\* Two runs of the command started on one directory: the first with any
\* network and key argument, the second on testnet without a key argument.
InitCli ==
    /\ \E r1 \in CliInputs(NetworkArgs, PkArgs, Repeat(64, "1"), Repeat(64, "a")),
          r2 \in CliInputs({[has |-> TRUE, arg |-> <<"t","e","s","t","n","e","t">>]},
                           {[has |-> FALSE, arg |-> <<>>]},
                           Repeat(64, "2"), Repeat(64, "b")) :
         cli = (1 :> r1) @@ (2 :> r2)
    /\ keyFile \in KeyFileInputs
    /\ opts = [c \in Calls |-> IdleOpts]
    /\ pc = [c \in Calls |-> "idle"]
    /\ local = [c \in Calls |-> InitLocal]
    /\ file = NoFile
    /\ posted = <<>>
    /\ codec = IdleCodec
    /\ amount = IdleAmount

SpecCli == InitCli /\ [][NextCli]_vars

\* ------------------------------------------------- the helpers, run directly

\* Content of len bytes ending in the byte last.
ContentOf(len, last) == [i \in 1..len |-> IF i = len THEN last ELSE (7 * i) % 256]

ContentLengths ==
    (0..MaxSmallLen) \cup
    { k * MAX_BYTE_SIZE + d : k \in 1..MaxChunks, d \in {0 - 1, 0, 1} }

\* Last bytes: zero, a byte the minimal-push rule turns into an opcode, the
\* placeholder's own value, the byte that becomes OP_1NEGATE, and 0xff.
LastBytes == {0, 5, 17, 129, 255}

ContentInputs == { ContentOf(n, b) : n \in ContentLengths, b \in LastBytes }

\* Internal keys: x-only, and compressed with either parity.
KeyInputs == { Repeat(32, 17), <<2>> \o Repeat(32, 17), <<3>> \o Repeat(32, 171) }

ExtTokens ==
    DOMAIN MimeTable \cup
    { <<"g","i","f">>, <<"b","i","n">>, <<"P","N","G">>, <<>>,
      <<"c","o","n","s","t","r","u","c","t","o","r">>,
      <<"t","o","S","t","r","i","n","g">> }

InitCodec ==
    /\ \E k \in KeyInputs, e \in ExtTokens, d \in ContentInputs :
         codec = [pc |-> "start", publicKey |-> k, fileExtension |-> e, data |-> d,
                  contentTypeHex |-> <<>>, asm |-> <<>>, leafScript |-> <<>>,
                  extracted |-> <<>>, error |-> ""]
    /\ opts = [c \in Calls |-> IdleOpts]
    /\ pc = [c \in Calls |-> "idle"]
    /\ local = [c \in Calls |-> InitLocal]
    /\ file = NoFile
    /\ cli = [r \in Calls |-> IdleCli]
    /\ keyFile = NoKeyFile
    /\ posted = <<>>
    /\ amount = IdleAmount

\* fileExtensionToHexMarker(fileExtension)
CodecMarker ==
    /\ codec.pc = "start"
    /\ LET marker == fileExtensionToHexMarker(codec.fileExtension) IN
         codec' = IF marker.ok
                  THEN [codec EXCEPT !.pc = "marker", !.contentTypeHex = marker.hex]
                  ELSE [codec EXCEPT !.pc = "failed", !.error = marker.error]
    /\ UNCHANGED <<inscribeVars, amount, cliVars>>

\* generateInscriptionScriptFromFileHex(publicKey, markerHex, data.toString("hex"))
CodecGenerate ==
    /\ codec.pc = "marker"
    /\ LET gen == generateInscriptionScriptFromFileHex(
                      codec.publicKey, codec.contentTypeHex, BufferToHex(codec.data))
       IN codec' = IF gen.ok
                   THEN [codec EXCEPT !.pc = "generated", !.asm = gen.asm]
                   ELSE [codec EXCEPT !.pc = "failed", !.error = gen.error]
    /\ UNCHANGED <<inscribeVars, amount, cliVars>>

\* script.fromASM(inscriptionAsm) and the patch of byte 41.
CodecCompile ==
    /\ codec.pc = "generated"
    /\ codec' = [codec EXCEPT !.pc = "compiled",
                              !.leafScript = PatchMarker(fromASM(codec.asm))]
    /\ UNCHANGED <<inscribeVars, amount, cliVars>>

\* extractInscriptionFromTransaction on the hex of the leaf script.
CodecExtract ==
    /\ codec.pc = "compiled"
    /\ codec' = [codec EXCEPT
                   !.pc = "extracted",
                   !.extracted = <<extractInscriptionFromTransaction(
                                       BufferToHex(codec.leafScript))>>]
    /\ UNCHANGED <<inscribeVars, amount, cliVars>>

NextCodec == CodecMarker \/ CodecGenerate \/ CodecCompile \/ CodecExtract

SpecCodec == InitCodec /\ [][NextCodec]_vars

\* ------------------------------------------------- btcToSats, run directly

AmountAlphabet == {"0", "1", "9", ".", " ", "-", "e", "a"}

\* Longer amounts: the fee, 8 and 9 fractional digits, the supply, and the
\* amounts around 2^53 satoshis.
LongAmounts ==
    { <<"0",".","0","0","0","0","1","0","0","0">>,
      <<"0",".","1","2","3","4","5","6","7","8">>,
      <<"0",".","1","2","3","4","5","6","7","8","9">>,
      <<" ","2","1","0","0","0","0","0","0",".","5","\n">>,
      <<"9","0","0","7","1","9","9","2",".","5","4","7","4","0","9","9","1">>,
      <<"9","0","0","7","1","9","9","2",".","5","4","7","4","0","9","9","2">>,
      <<"9","0","0","7","1","9","9","2",".","5","4","7","4","0","9","9","3">>,
      <<"9","0","0","7","1","9","9","2",".","5","4","7","4","0","9","9","5">>,
      <<"9","0","0","7","1","9","9","3">>,
      <<"1","e","-","8">>, <<"1",".","5",".","5">>, <<"0","x","1","0">> }

AmountStrings ==
    UNION { [1..n -> AmountAlphabet] : n \in 0..MaxAmountLen } \cup LongAmounts

InitAmount ==
    /\ \E str \in AmountStrings :
         amount = [pc |-> "start", btcStr |-> str, result |-> <<>>]
    /\ opts = [c \in Calls |-> IdleOpts]
    /\ pc = [c \in Calls |-> "idle"]
    /\ local = [c \in Calls |-> InitLocal]
    /\ file = NoFile
    /\ cli = [r \in Calls |-> IdleCli]
    /\ keyFile = NoKeyFile
    /\ posted = <<>>
    /\ codec = IdleCodec

\* btcToSats(btcStr)
ConvertAmount ==
    /\ amount.pc = "start"
    /\ amount' = [amount EXCEPT !.pc = "done", !.result = <<btcToSats(amount.btcStr)>>]
    /\ UNCHANGED <<inscribeVars, codec, cliVars>>

NextAmount == ConvertAmount

SpecAmount == InitAmount /\ [][NextAmount]_vars

\* ------------------------------------------------- properties

CodecPast(stage) ==
    CASE stage = "generated" -> codec.pc \in {"generated", "compiled", "extracted"}
      [] stage = "compiled" -> codec.pc \in {"compiled", "extracted"}
      [] OTHER -> codec.pc = stage

\* The chunk tokens of the ASM: what stands between OP_0 and OP_ENDIF.
ChunkTokens(asm) == SubSeq(asm, 9, Len(asm) - 1)
ChunkBytes(asm) == [i \in 1..Len(ChunkTokens(asm)) |-> BufferFromHex(ChunkTokens(asm)[i].hex)]

\* C1: decoding the leaf script the encoder produced returns the content
\* and the content type that were encoded.
C1_RoundTrip ==
    codec.pc = "extracted" =>
        /\ codec.extracted[1].ok
        /\ codec.extracted[1].data = codec.data

\* C2: non-empty content of L bytes is split into exactly ceil(L / 520)
\* chunks, none empty, none above 520 bytes, only the last one shorter, and
\* the chunks concatenated in order are the content.
C2_Chunking ==
    CodecPast("generated") =>
        LET chunks == ChunkBytes(codec.asm)
            L == Len(codec.data)
        IN /\ Len(chunks) = (L + MAX_BYTE_SIZE - 1) \div MAX_BYTE_SIZE
           /\ \A i \in 1..Len(chunks) :
                /\ Len(ChunkTokens(codec.asm)[i].hex) = 2 * Len(chunks[i])
                /\ Len(chunks[i]) >= 1
                /\ Len(chunks[i]) <= MAX_BYTE_SIZE
                /\ i < Len(chunks) => Len(chunks[i]) = MAX_BYTE_SIZE
           /\ Flatten(chunks) = codec.data

\* A content of one full push and one byte has been split.
C2_Witness ==
    /\ CodecPast("generated")
    /\ Len(codec.data) = MAX_BYTE_SIZE + 1
    /\ Len(ChunkTokens(codec.asm)) = 2

\* C3: in every reveal transaction built, the input's value is the change
\* output's value plus the fee output's value, the fee output's value is the
\* fixed fee, and the change is strictly positive.
C3_ValueConservation ==
    \A c \in Calls :
        local[c].outputs # <<>> =>
            /\ Len(local[c].outputs) = 2
            /\ local[c].txInput[1].value =
                   SatsAdd(local[c].outputs[1].value, local[c].outputs[2].value)
            /\ local[c].outputs[2].value = Sats(0, TRANSACTION_FEE_IN_SATOSHIS)
            /\ SatsLess(Sats(0, 0), local[c].outputs[1].value)
            /\ local[c].hex # <<>>
            /\ local[c].hex[1].input = local[c].txInput[1]
            /\ local[c].hex[1].outputs = local[c].outputs

\* A transaction funded with one satoshi more than the fee has been built.
C3_Witness ==
    /\ local[1].hex # <<>>
    /\ local[1].hex[1].outputs[1].value = Sats(0, 1)
    /\ local[1].hex[1].input.value = Sats(0, TRANSACTION_FEE_IN_SATOSHIS + 1)

\* C4: with an amount at or below the fee the call fails: no input, output
\* or transaction is built, inscription-tx.hex is not written and nothing is
\* broadcast; a transaction is built only for an amount above the fee.
C4_InsufficientFunds ==
    \A c \in Calls :
        /\ (local[c].amountSats # <<>> /\ SatsLeq(local[c].amountSats[1], FeeSats)) =>
              /\ pc[c] \in {"askChange", "failed"}
              /\ local[c].txInput = <<>>
              /\ local[c].outputs = <<>>
              /\ local[c].hex = <<>>
              /\ ~file.exists
              /\ posted = <<>>
        /\ (local[c].txInput # <<>> \/ pc[c] \in {"writing", "broadcasting", "done"}) =>
              SatsLess(FeeSats, local[c].amountSats[1])

\* A call funded with exactly the fee has failed on the fee check.
C4_Witness ==
    /\ pc[1] = "failed"
    /\ local[1].error = "Amount must exceed fee."
    /\ local[1].amountSats = <<FeeSats>>

\* The funding reference as the caller gave it, blanks at the ends aside.
GivenTxidIs64Hex(c) ==
    LET t == Trim(opts[c].funding.txid) IN
    Len(t) = 64 /\ \A i \in 1..Len(t) : t[i] \in HexChars
GivenVoutIsNonNegativeInteger(c) ==
    IF opts[c].interactive
    THEN LET a == Trim(opts[c].funding.voutAnswer) IN a # <<>> /\ AllDigits(a)
    ELSE opts[c].funding.vout.kind = "int" /\ opts[c].funding.vout.value >= 0

\* C5: a txid that is not 64 hex characters, or a vout that is not a
\* non-negative integer, makes the call fail before any construction: no
\* input or output is created, nothing is signed, written or broadcast.
C5_FundingReferenceValidated ==
    \A c \in Calls :
        (pc[c] # "idle" /\ (~GivenTxidIs64Hex(c) \/ ~GivenVoutIsNonNegativeInteger(c))) =>
            /\ pc[c] \notin {"writing", "broadcasting", "done"}
            /\ local[c].txInput = <<>>
            /\ local[c].outputs = <<>>
            /\ local[c].hex = <<>>
            /\ ~file.exists
            /\ posted = <<>>

\* C6: an extension token outside the table fails with the unsupported
\* content type error, before any question is asked, and no script, address
\* or transaction is produced.
C6_UnsupportedRejected ==
    \A c \in Calls :
        (pc[c] \notin {"idle", "start"} /\ local[c].ext \notin DOMAIN MimeTable) =>
            /\ pc[c] = "failed"
            /\ local[c].error = "Unsupported content type"
            /\ local[c].asked = 0
            /\ local[c].asm = <<>>
            /\ local[c].leafScript = <<>>
            /\ local[c].address = <<>>
            /\ local[c].hex = <<>>

Pow10 == [n \in 0..8 |-> CASE n = 0 -> 1 [] n = 1 -> 10 [] n = 2 -> 100
                           [] n = 3 -> 1000 [] n = 4 -> 10000 [] n = 5 -> 100000
                           [] n = 6 -> 1000000 [] n = 7 -> 10000000
                           [] OTHER -> 100000000]

\* The shape the claim gives: digits, then optionally a point and 1 to 8
\* digits; k is the number of digits of the integer part.
AmountShape(t, k) ==
    /\ k >= 1
    /\ k <= Len(t)
    /\ \A i \in 1..k : t[i] \in Digits
    /\ \/ k = Len(t)
       \/ /\ t[k + 1] = "."
          /\ Len(t) - k - 1 \in 1..8
          /\ \A i \in (k + 2)..Len(t) : t[i] \in Digits
HasAmountShape(t) == \E k \in 1..Len(t) : AmountShape(t, k)

\* intPart * 10^8 + fracPart right-padded with zeros to 8 digits.
ExactSats(t) ==
    LET k == CHOOSE j \in 1..Len(t) : AmountShape(t, j)
        frac == SubSeq(t, k + 2, Len(t))
    IN Sats(NumberOfDigits(SubSeq(t, 1, k)), NumberOfDigits(frac) * Pow10[8 - Len(frac)])

\* C7 as stated: exactly the strings of the shape are accepted and each is
\* converted to its exact number of satoshis.
C7_ExactForEveryAccepted ==
    amount.pc = "done" =>
        LET t == Trim(amount.btcStr)
            r == amount.result[1]
        IN /\ r.ok <=> HasAmountShape(t)
           /\ r.ok => r.sats = ExactSats(t)

\* C7 amended: exactly the strings of the shape are accepted, every other
\* string is rejected with the error, and each accepted string that denotes
\* at most 2^53 satoshis is converted to its exact number of satoshis.
C7_ExactUpTo2Pow53 ==
    amount.pc = "done" =>
        LET t == Trim(amount.btcStr)
            r == amount.result[1]
        IN /\ r.ok <=> HasAmountShape(t)
           /\ ~r.ok => r.error = "Amount must be a number with up to 8 decimals."
           /\ (r.ok /\ SatsLeq(ExactSats(t), TwoPow53)) => r.sats = ExactSats(t)

\* An amount inside blanks with a one-digit fraction has been converted.
C7_Witness ==
    /\ amount.pc = "done"
    /\ amount.btcStr = <<" ","2","1","0","0","0","0","0","0",".","5","\n">>
    /\ amount.result[1].ok
    /\ amount.result[1].sats = Sats(21000000, 50000000)

\* What a call builds when it runs alone: a function of its own arguments.
HexAlone(o) ==
    LET publicKey == PublicKeyOf(o.privateKey)
        marker == fileExtensionToHexMarker(NormalizeExt(o.hasExt, o.fileExt))
        gen == generateInscriptionScriptFromFileHex(publicKey, marker.hex,
                                                    BufferToHex(o.data))
        leafScript == PatchMarker(fromASM(gen.asm))
        f == o.funding
        outputIndex == IF o.interactive THEN NumberOfString(Trim(f.voutAnswer))
                       ELSE f.vout
        sats == btcToSats(f.amountBtc).sats
    IN TxHex(NewPsetInput(Trim(f.txid), outputIndex,
                          P2trAddress(publicKey, leafScript, o.network), sats),
             NewOutputs(sats, f.changeAddress), leafScript, o.privateKey, o.network)

\* C8: of two calls made at once, each one's result, broadcast and
\* persisted file are what they would be had it run alone: the hex is the
\* one its own arguments give, and from its write until its return the file
\* inscription-tx.hex holds that hex.
C8_IndependentCalls ==
    \A c \in Calls :
        /\ local[c].hex # <<>> => local[c].hex[1] = HexAlone(opts[c])
        /\ \A i \in 1..Len(posted) :
              posted[i].call = c => posted[i].hex = HexAlone(opts[c])
        /\ pc[c] = "done" => local[c].result[1].txHex = HexAlone(opts[c])
        /\ pc[c] = "broadcasting" => file = [exists |-> TRUE, content |-> local[c].hex]

\* C9: with a supported extension, empty content fails with "Inscription
\* data is empty" and yields no script, address or transaction; non-empty
\* content yields a script.
C9_EmptyPayload ==
    \A c \in Calls :
        (pc[c] \notin {"idle", "start"} /\ local[c].ext \in DOMAIN MimeTable) =>
            IF opts[c].data = <<>>
            THEN /\ pc[c] = "failed"
                 /\ local[c].error = "Inscription data is empty"
                 /\ local[c].asm = <<>>
                 /\ local[c].leafScript = <<>>
                 /\ local[c].address = <<>>
                 /\ local[c].txInput = <<>>
                 /\ local[c].hex = <<>>
                 /\ local[c].asked = 0
            ELSE /\ local[c].asm # <<>>
                 /\ local[c].error # "Inscription data is empty"

\* A call with a supported extension and empty content has failed.
C9_Witness ==
    /\ pc[1] = "failed"
    /\ opts[1].data = <<>>
    /\ local[1].ext = <<"p","n","g">>
    /\ local[1].error = "Inscription data is empty"

\* The x-only form of a 32- or 33-byte key: its last 32 bytes.
Last32(pk) == SubSeq(pk, Len(pk) - 31, Len(pk))

\* What a script interpreter reads in a compiled script, element by element:
\* a pushed value (by a direct push, OP_PUSHDATA1, OP_PUSHDATA2, or one of
\* the opcodes that push an empty value, -1 or a number 1..16), or an opcode.
Pushed(bytes) == [push |-> bytes]
Opcode(b) == [opcode |-> b]
RECURSIVE ReadScript(_)
ReadScript(bytes) ==
    IF bytes = <<>> THEN <<>>
    ELSE LET b == bytes[1]
             n == Len(bytes)
         IN IF b = 0 THEN <<Pushed(<<>>)>> \o ReadScript(SubSeq(bytes, 2, n))
            ELSE IF b <= 75
            THEN <<Pushed(SubSeq(bytes, 2, 1 + b))>> \o ReadScript(SubSeq(bytes, 2 + b, n))
            ELSE IF b = 76
            THEN <<Pushed(SubSeq(bytes, 3, 2 + bytes[2]))>>
                    \o ReadScript(SubSeq(bytes, 3 + bytes[2], n))
            ELSE IF b = 77
            THEN LET size == bytes[2] + 256 * bytes[3] IN
                 <<Pushed(SubSeq(bytes, 4, 3 + size))>>
                    \o ReadScript(SubSeq(bytes, 4 + size, n))
            ELSE IF b = 79 THEN <<Pushed(<<129>>)>> \o ReadScript(SubSeq(bytes, 2, n))
            ELSE IF b >= 81 /\ b <= 96
            THEN <<Pushed(<<b - 80>>)>> \o ReadScript(SubSeq(bytes, 2, n))
            ELSE <<Opcode(b)>> \o ReadScript(SubSeq(bytes, 2, n))

\* The envelope the claim describes for a key, a MIME string and a content.
NumberOfChunks(data) == (Len(data) + MAX_BYTE_SIZE - 1) \div MAX_BYTE_SIZE
ExpectedEnvelope(publicKey, mime, data) ==
    << Pushed(Last32(publicKey)), Opcode(172), Pushed(<<>>), Opcode(99),
       Pushed(<<111, 114, 100>>), Pushed(<<CONTENT_TYPE_MARKER>>), Pushed(mime),
       Pushed(<<>>) >>
    \o [i \in 1..NumberOfChunks(data) |->
          Pushed(SubSeq(data, (i - 1) * MAX_BYTE_SIZE + 1,
                        Min(i * MAX_BYTE_SIZE, Len(data))))]
    \o << Opcode(104) >>

\* C10: the leaf script is <x-only key> OP_CHECKSIG OP_FALSE OP_IF <"ord">
\* <one-byte marker> <content type> OP_0 <chunks> OP_ENDIF, both as the ASM
\* and as the elements read back from the compiled and patched bytes, and
\* byte 41 of the compiled script, the one the patch overwrites, is the
\* marker's placeholder: the data byte of the one-byte push that follows the
\* key, the three opcodes and the protocol marker.
C10_EnvelopeGrammar ==
    /\ CodecPast("generated") =>
         LET asm == codec.asm IN
         /\ Len(asm) >= 10
         /\ asm[1] = Hex(BufferToHex(Last32(codec.publicKey)))
         /\ Len(asm[1].hex) = 64
         /\ SubSeq(asm, 2, 4) = <<Op("OP_CHECKSIG"), Op("OP_FALSE"), Op("OP_IF")>>
         /\ asm[5] = Hex(<<6, 15, 7, 2, 6, 4>>)
         /\ asm[6] = Hex(<<1, 1>>)
         /\ ~IsOp(asm[7])
         /\ Len(asm[7].hex) = 2 * Len(MimeTable[codec.fileExtension])
         /\ BufferFromHex(asm[7].hex) = MimeTable[codec.fileExtension]
         /\ asm[8] = Op("OP_0")
         /\ \A i \in 9..(Len(asm) - 1) : ~IsOp(asm[i]) /\ asm[i].hex # <<>>
         /\ Flatten([i \in 1..(Len(asm) - 9) |-> asm[8 + i].hex]) = BufferToHex(codec.data)
         /\ asm[Len(asm)] = Op("OP_ENDIF")
    /\ CodecPast("compiled") =>
         LET compiled == fromASM(codec.asm)
             before == fromASM(SubSeq(codec.asm, 1, 5))
         IN /\ Len(before) = 40
            /\ SubSeq(compiled, 1, 33) = <<32>> \o Last32(codec.publicKey)
            /\ SubSeq(compiled, 34, 40) = <<172, 0, 99, 3, 111, 114, 100>>
            /\ compiled[41] = 1
            /\ compiled[42] = 17
            /\ Len(codec.leafScript) = Len(compiled)
            /\ codec.leafScript[42] = CONTENT_TYPE_MARKER
            /\ \A i \in 1..Len(compiled) :
                 i # 42 => codec.leafScript[i] = compiled[i]
            /\ ReadScript(codec.leafScript) =
                 ExpectedEnvelope(codec.publicKey, MimeTable[codec.fileExtension],
                                  codec.data)

\* A compressed key and a content of more than one push have been compiled.
C10_Witness ==
    /\ codec.pc = "compiled"
    /\ Len(codec.publicKey) = 33
    /\ Len(codec.data) > MAX_BYTE_SIZE
    /\ codec.leafScript[42] = CONTENT_TYPE_MARKER

\* The requests a call has handed to the explorer.
PostsOf(c) == { i \in 1..Len(posted) : posted[i].call = c }

\* C11: a call POSTs at most once, and only once its hex has been written
\* to inscription-tx.hex; the body POSTed is the hex the file holds; when
\* the write fails nothing is POSTed; when the broadcast fails the call
\* raises an error, returns nothing and the file stays as written; a result
\* is returned only after the explorer answered 200, and carries that hex.
C11_PersistThenBroadcast ==
    \A c \in Calls :
        /\ Cardinality(PostsOf(c)) <= 1
        /\ \A i \in PostsOf(c) :
              /\ local[c].wrote
              /\ file = [exists |-> TRUE, content |-> <<posted[i].hex>>]
              /\ posted[i].hex = local[c].hex[1]
        /\ ~local[c].wrote => PostsOf(c) = {}
        /\ pc[c] = "broadcasting" => local[c].wrote /\ local[c].settled = <<>>
        /\ (pc[c] = "failed" /\ local[c].settled # <<>>) =>
              /\ local[c].settled[1].kind = "rejected" \/ local[c].settled[1].status # 200
              /\ local[c].error # ""
              /\ local[c].result = <<>>
              /\ file = [exists |-> TRUE, content |-> local[c].hex]
        /\ local[c].result # <<>> => pc[c] = "done"
        /\ pc[c] = "done" =>
              /\ Cardinality(PostsOf(c)) = 1
              /\ local[c].settled = <<Response(200, "txid")>>
              /\ local[c].result[1].txHex = local[c].hex[1]
              /\ local[c].result[1].broadcast = "txid"

\* The explorer refused a transaction: the call has failed after one POST
\* and the file holds the hex that was POSTed.
C11_Witness ==
    /\ pc[1] = "failed"
    /\ local[1].settled # <<>>
    /\ local[1].settled[1].kind = "response"
    /\ local[1].settled[1].status = 400
    /\ Len(posted) = 1
    /\ file.exists

\* A run of the command that is over, with or without an error.
CliFinished(r) == cli[r].pc \in {"done", "failed"}

\* A run whose readOrCreatePrivateKey has returned a key.
HoldsKeyOfFile(r) ==
    /\ cli[r].usesKeyFile
    /\ cli[r].pc \in {"readData", "inscribing", "writingHex", "done"}
         \/ (cli[r].pc = "failed" /\ pc[r] = "failed")

\* C12: of the runs made without a privateKey argument, each one that has
\* finished holding a key holds the key private-key.txt stores; a valid key
\* file that was there is never written and its trimmed content is the key
\* of every such run; an invalid key file that was there is never written
\* and every such run fails on it without calling inscribe; a missing file
\* is created with a key of 64 hex characters.
C12_KeyPersistence ==
    /\ \A r \in Calls :
          (HoldsKeyOfFile(r) /\ CliFinished(r)) =>
              /\ keyFile.exists
              /\ Trim(keyFile.content) = cli[r].privateKey
              /\ assertHexPrivateKey(cli[r].privateKey) = ""
    /\ keyFile.original # <<>> =>
          /\ keyFile.writes = 0
          /\ keyFile.exists
          /\ keyFile.content = keyFile.original[1]
          /\ \A r \in Calls :
                (cli[r].usesKeyFile /\ cli[r].pc \notin {"start", "readingKey"}) =>
                    IF assertHexPrivateKey(Trim(keyFile.original[1])) = ""
                    THEN /\ cli[r].privateKey = Trim(keyFile.original[1])
                         /\ ~cli[r].created
                    ELSE /\ cli[r].pc = "failed"
                         /\ cli[r].error = assertHexPrivateKey(Trim(keyFile.original[1]))
                         /\ cli[r].privateKey = <<>>
                         /\ pc[r] = "idle"

\* The words the CLI accepts for a network, as keys of the explorer table.
NetworkWord(v) ==
    CASE v = <<"m","a","i","n","n","e","t">> -> "mainnet"
      [] v = <<"t","e","s","t","n","e","t">> -> "testnet"
      [] v = <<"r","e","g","t","e","s","t">> -> "regtest"
      [] OTHER -> ""
AskedNetwork(r) ==
    NetworkWord(ToLowerCase(IF cli[r].hasNetwork THEN cli[r].networkArg
                            ELSE <<"m","a","i","n","n","e","t">>))

\* C13: for a run on mainnet, testnet or regtest, the client inscribe makes
\* has the API URL the explorer table gives for that network, and the
\* reveal transaction is POSTed to that URL's /tx.
C13_NetworkToExplorer ==
    \A r \in Calls :
        (cli[r].pc = "inscribing" /\ local[r].client # <<>>) =>
            /\ AskedNetwork(r) \in DOMAIN networkExplorers
            /\ local[r].client[1].API_URL = <<networkExplorers[AskedNetwork(r)]>>
            /\ PostsOf(r) # {}
            /\ \A i \in PostsOf(r) :
                  posted[i].url = networkExplorers[AskedNetwork(r)] \o "/tx"

====
